---------------------------- MODULE Spec2Model ----------------------------
(***************************************************************************)
(* A model of nfc/llcp/pdu.py: the LLCP protocol data unit codec.          *)
(*                                                                         *)
(* Byte strings are sequences of integers 0..255.  Python's 0-based index  *)
(* i of a buffer is element i+1 of the sequence.  A call that can raise    *)
(* is an operator that yields a record whose err field names the           *)
(* exception class that escapes ("none" when the call returns).            *)
(* Semantics are those of CPython 2.7, the interpreter the module is       *)
(* written for (str is bytes, str(V) of a byte string is the identity),    *)
(* with assert statements enabled.                                         *)
(***************************************************************************)
EXTENDS Integers, Sequences, FiniteSets, TLC

(***************************************************************************)
(* Bounds of the model.                                                    *)
(***************************************************************************)
\* the number of chunks (TLVs, aggregate entries, raw bytes) in a received body
MaxChunks == 2
\* the number of PDUs appended to an aggregated frame after construction
MaxAgg == 2
\* the number of aggregated frames that exist side by side
MaxFrames == 2

(***************************************************************************)
(* Integer and byte-string helpers: Python's operators and struct module.  *)
(***************************************************************************)
Max(a, b) == IF a >= b THEN a ELSE b
Min(a, b) == IF a <= b THEN a ELSE b

RECURSIVE BitOr(_, _)
\* a | b for a, b >= 0
BitOr(a, b) ==
    IF a = 0 THEN b
    ELSE IF b = 0 THEN a
    ELSE Max(a % 2, b % 2) + 2 * BitOr(a \div 2, b \div 2)

RECURSIVE BitAnd(_, _)
\* a & b for a, b >= 0
BitAnd(a, b) ==
    IF a = 0 \/ b = 0 THEN 0
    ELSE (IF a % 2 = 1 /\ b % 2 = 1 THEN 1 ELSE 0) + 2 * BitAnd(a \div 2, b \div 2)

RECURSIVE Pow2(_)
Pow2(n) == IF n = 0 THEN 1 ELSE 2 * Pow2(n - 1)

\* a << n and a >> n
Shl(a, n) == a * Pow2(n)
Shr(a, n) == a \div Pow2(n)

\* data[a:b] of Python, for 0 <= a: the indexes are clamped to the buffer
Slice(data, a, b) ==
    LET hi == Min(b, Len(data))
    IN  IF hi <= a THEN << >> ELSE SubSeq(data, a + 1, hi)

\* the exclusive upper end of the bytes data[a:b] copies (a when it copies none)
SliceEnd(data, a, b) == Max(a, Min(b, Len(data)))

\* struct.unpack_from('!B' * n, data, offset) can be served by the buffer
CanUnpack(data, offset, n) == offset >= 0 /\ offset + n <= Len(data)

\* the byte at Python index i
At(data, i) == data[i + 1]

\* struct.unpack_from('!H', data, offset)[0]
U16(data, offset) == At(data, offset) * 256 + At(data, offset + 1)

\* struct.pack('!B', v): the byte, or struct.error when v is no unsigned byte
PackB(v) ==
    IF v >= 0 /\ v <= 255 THEN [err |-> "none", bytes |-> << v >>]
    ELSE [err |-> "struct.error", bytes |-> << >>]

\* struct.pack('!H', v)
PackH(v) ==
    IF v >= 0 /\ v <= 65535 THEN [err |-> "none", bytes |-> << v \div 256, v % 256 >>]
    ELSE [err |-> "struct.error", bytes |-> << >>]

\* a + b of two packing results: the first error escapes
Cat(a, b) ==
    IF a.err # "none" THEN a
    ELSE IF b.err # "none" THEN b
    ELSE [err |-> "none", bytes |-> a.bytes \o b.bytes]

Bytes(s) == [err |-> "none", bytes |-> s]
Raise(e) == [err |-> e, bytes |-> << >>]

(***************************************************************************)
(* class Parameter: the TLV type codes.                                    *)
(***************************************************************************)
VERSION == 1
MIUX == 2
WKS == 3
LTO == 4
RW == 5
SN == 6
OPT == 7
SDREQ == 8
SDRES == 9
ECPK == 10
RN == 11

\* what Parameter.decode hands back: its (T, L, V), or None, or an exception.
\* hi is the exclusive upper end of the buffer bytes the call has read.
TlvOk(T, L, V, hi) == [err |-> "none", isNone |-> FALSE, T |-> T, L |-> L, V |-> V, hi |-> hi]
TlvNone(T, L, hi) == [err |-> "none", isNone |-> TRUE, T |-> T, L |-> L, V |-> 0, hi |-> hi]
TlvRaise(e, T, L, hi) == [err |-> e, isNone |-> FALSE, T |-> T, L |-> L, V |-> 0, hi |-> hi]

\* one fixed-length TLV value: assert L == n, then unpack n bytes at offset+2
FixedTlv(data, offset, T, L, n, V) ==
    IF L # n THEN TlvRaise("DecodeError", T, L, offset + 2)
    ELSE IF ~CanUnpack(data, offset + 2, n) THEN TlvRaise("struct.error", T, L, offset + 2)
    ELSE TlvOk(T, L, V, offset + 2 + n)

\* a TLV value that is the L bytes data[offset+2:offset+2+L]
BytesTlv(data, offset, T, L) ==
    TlvOk(T, L, Slice(data, offset + 2, offset + 2 + L),
          SliceEnd(data, offset + 2, offset + 2 + L))

\* the length assertion of Parameter.decode dropped: the type dispatch alone
Parameter_decode_body(data, offset, size, T, L) ==
    IF T = VERSION THEN
        FixedTlv(data, offset, T, L, 1,
                 << Shr(At(data, offset + 2), 4), BitAnd(At(data, offset + 2), 15) >>)
    ELSE IF T = MIUX THEN
        FixedTlv(data, offset, T, L, 2, BitAnd(U16(data, offset + 2), 2047))
    ELSE IF T = WKS THEN
        FixedTlv(data, offset, T, L, 2, U16(data, offset + 2))
    ELSE IF T = LTO THEN
        FixedTlv(data, offset, T, L, 1, At(data, offset + 2))
    ELSE IF T = RW THEN
        FixedTlv(data, offset, T, L, 1, At(data, offset + 2))
    ELSE IF T = SN THEN
        BytesTlv(data, offset, T, L)
    ELSE IF T = OPT THEN
        FixedTlv(data, offset, T, L, 1, At(data, offset + 2))
    ELSE IF T = SDREQ THEN
        \* '!B%ds' % (L-1): the format '!B-1s' of L = 0 is a struct.error
        IF L = 0 \/ ~CanUnpack(data, offset + 2, L)
        THEN TlvRaise("struct.error", T, L, offset + 2)
        ELSE TlvOk(T, L, << At(data, offset + 2), Slice(data, offset + 3, offset + 2 + L) >>,
                   offset + 2 + L)
    ELSE IF T = SDRES THEN
        FixedTlv(data, offset, T, L, 2, << At(data, offset + 2), At(data, offset + 3) >>)
    ELSE IF T = ECPK THEN
        BytesTlv(data, offset, T, L)
    ELSE IF T = RN THEN
        BytesTlv(data, offset, T, L)
    ELSE TlvNone(T, L, offset + 2)

\* Parameter.decode without its first assertion (a plausible slip)
Parameter_decode_unchecked(data, offset, size) ==
    IF ~CanUnpack(data, offset, 2) THEN TlvRaise("struct.error", 0, 0, offset)
    ELSE Parameter_decode_body(data, offset, size, At(data, offset), At(data, offset + 1))

\* Parameter.decode(data, offset, size)
Parameter_decode(data, offset, size) ==
    IF ~CanUnpack(data, offset, 2) THEN TlvRaise("struct.error", 0, 0, offset)
    ELSE LET T == At(data, offset)
             L == At(data, offset + 1)
         IN  IF ~(L <= size - 2) THEN TlvRaise("DecodeError", T, L, offset + 2)
             ELSE Parameter_decode_body(data, offset, size, T, L)

\* struct.pack('!BBB', T, 1, v)
Tlv1(T, v) == Cat(Bytes(<< T, 1 >>), PackB(v))
\* struct.pack('!BBH', T, 2, v)
Tlv2(T, v) == Cat(Bytes(<< T, 2 >>), PackH(v))

\* Parameter.encode(T, V).  The two raise statements format a 3-tuple into
\* a one-place format string, which is itself a TypeError.
Parameter_encode(T, V) ==
    IF T = VERSION THEN Tlv1(T, BitOr(Shl(V[1], 4), V[2]))
    ELSE IF T \in {LTO, RW, OPT} THEN Tlv1(T, V)
    ELSE IF T \in {MIUX, WKS} THEN Tlv2(T, V)
    ELSE IF T \in {SN, ECPK, RN} THEN
        IF Len(V) > 255 THEN Raise("TypeError")
        ELSE Bytes(<< T, Len(V) >> \o V)
    ELSE IF T = SDREQ THEN
        IF Len(V[2]) > 254 THEN Raise("TypeError")
        ELSE Cat(Cat(Bytes(<< T >>), PackB(1 + Len(V[2]))), Cat(PackB(V[1]), Bytes(V[2])))
    ELSE IF T = SDRES THEN
        Cat(Bytes(<< T, 2 >>), Cat(PackB(V[1]), PackB(V[2])))
    ELSE Raise("TypeError")

(***************************************************************************)
(* PDU values.  A value is a record: name is the class, the other fields   *)
(* are the instance attributes.  FrameReject keeps the rejected type in    *)
(* the attribute ptype, the one encode_header reads.                       *)
(***************************************************************************)
NoPdu == [name |-> "none"]

\* Python's None where an integer attribute is expected (ns of RR and RNR)
None == -1

\* an optional byte string: None, or the bytes
NoBytes == [some |-> FALSE, val |-> << >>]
Some(b) == [some |-> TRUE, val |-> b]
\* the truth value of an optional byte string: None and b'' are false
Truthy(x) == x.some /\ Len(x.val) > 0

Symmetry(dsap, ssap) == [name |-> "SYMM", ptype |-> 0, dsap |-> dsap, ssap |-> ssap]

ParameterExchange(dsap, ssap, version, miu, wks, lto, lsc, dpc) ==
    [name |-> "PAX", ptype |-> 1, dsap |-> dsap, ssap |-> ssap, version |-> version,
     miu |-> miu, wks |-> wks, lto |-> lto, lsc |-> lsc, dpc |-> dpc]

\* the constructor copies the list it is given: aggregate[:]
AggregatedFrame(dsap, ssap, aggregate) ==
    [name |-> "AGF", ptype |-> 2, dsap |-> dsap, ssap |-> ssap, aggregate |-> aggregate]

\* AggregatedFrame.append(pdu)
AggregatedFrame_append(agf, pdu) == [agf EXCEPT !.aggregate = Append(@, pdu)]

\* data if data else b''
UnnumberedInformation(dsap, ssap, data) ==
    [name |-> "UI", ptype |-> 3, dsap |-> dsap, ssap |-> ssap,
     data |-> IF Truthy(data) THEN data.val ELSE << >>]

Connect(dsap, ssap, miu, rw, sn) ==
    [name |-> "CONNECT", ptype |-> 4, dsap |-> dsap, ssap |-> ssap,
     miu |-> miu, rw |-> rw, sn |-> sn]

Disconnect(dsap, ssap) == [name |-> "DISC", ptype |-> 5, dsap |-> dsap, ssap |-> ssap]

ConnectionComplete(dsap, ssap, miu, rw) ==
    [name |-> "CC", ptype |-> 6, dsap |-> dsap, ssap |-> ssap, miu |-> miu, rw |-> rw]

DisconnectedMode(dsap, ssap, reason) ==
    [name |-> "DM", ptype |-> 7, dsap |-> dsap, ssap |-> ssap, reason |-> reason]

\* the base constructor sets ptype to 0b1000, then self.ptype = ptype overwrites it
FrameReject(dsap, ssap, flags, ptype, ns, nr, vs, vr, vsa, vra) ==
    [name |-> "FRMR", ptype |-> ptype, dsap |-> dsap, ssap |-> ssap, flags |-> flags,
     ns |-> ns, nr |-> nr, vs |-> vs, vr |-> vr, vsa |-> vsa, vra |-> vra]

\* the constructor makes the two lists empty; callers fill them afterwards
ServiceNameLookup(dsap, ssap, sdreq, sdres) ==
    [name |-> "SNL", ptype |-> 9, dsap |-> dsap, ssap |-> ssap,
     sdreq |-> sdreq, sdres |-> sdres]

DataProtectionSetup(dsap, ssap, ecpk, rn) ==
    [name |-> "DPS", ptype |-> 10, dsap |-> dsap, ssap |-> ssap, ecpk |-> ecpk, rn |-> rn]

Information(dsap, ssap, ns, nr, data) ==
    [name |-> "I", ptype |-> 12, dsap |-> dsap, ssap |-> ssap, ns |-> ns, nr |-> nr,
     data |-> IF Truthy(data) THEN data.val ELSE << >>]

ReceiveReady(dsap, ssap, nr) ==
    [name |-> "RR", ptype |-> 13, dsap |-> dsap, ssap |-> ssap, ns |-> None, nr |-> nr]

ReceiveNotReady(dsap, ssap, nr) ==
    [name |-> "RNR", ptype |-> 14, dsap |-> dsap, ssap |-> ssap, ns |-> None, nr |-> nr]

\* what a constructor call hands back: the value, or the exception it raises
Made(p) == [err |-> "none", pdu |-> p]

\* UnknownProtocolDataUnit.__init__: super(ProtocolDataUnit, self).__init__
\* is object.__init__, which takes no arguments, so every call raises
\* TypeError before any attribute is set.
UnknownProtocolDataUnit(ptype, dsap, ssap, payload) ==
    [err |-> "TypeError", pdu |-> NoPdu]

(***************************************************************************)
(* The header codec.                                                       *)
(***************************************************************************)
\* ProtocolDataUnit.decode_header(data, offset, size)
decode_header(data, offset, size) ==
    IF size < 2 THEN [err |-> "DecodeError", dsap |-> 0, ssap |-> 0, hi |-> 0]
    ELSE IF ~CanUnpack(data, offset, 2)
    THEN [err |-> "struct.error", dsap |-> 0, ssap |-> 0, hi |-> 0]
    ELSE [err |-> "none", dsap |-> Shr(At(data, offset), 2),
          ssap |-> BitAnd(At(data, offset + 1), 63), hi |-> offset + 2]

\* NumberedProtocolDataUnit.decode_header(data, offset, size)
Numbered_decode_header(data, offset, size) ==
    IF size < 3
    THEN [err |-> "DecodeError", dsap |-> 0, ssap |-> 0, ns |-> 0, nr |-> 0, hi |-> 0]
    ELSE IF ~CanUnpack(data, offset, 3)
    THEN [err |-> "struct.error", dsap |-> 0, ssap |-> 0, ns |-> 0, nr |-> 0, hi |-> 0]
    ELSE [err |-> "none", dsap |-> Shr(At(data, offset), 2),
          ssap |-> BitAnd(At(data, offset + 1), 63),
          ns |-> Shr(At(data, offset + 2), 4), nr |-> BitAnd(At(data, offset + 2), 15),
          hi |-> offset + 3]

\* the header word dsap<<10 | ptype<<6 | ssap
HeaderWord(pdu) == BitOr(BitOr(Shl(pdu.dsap, 10), Shl(pdu.ptype, 6)), pdu.ssap)

\* encode_header with the two range checks left out: struct.pack keeps what fits
encode_header_unchecked(pdu) == PackH(HeaderWord(pdu) % 65536)

\* ProtocolDataUnit.encode_header(self)
encode_header(pdu) ==
    IF pdu.dsap > 63 THEN Raise("EncodeError")
    ELSE IF pdu.ssap > 63 THEN Raise("EncodeError")
    ELSE PackH(HeaderWord(pdu))

\* NumberedProtocolDataUnit.encode_header(self).  None > 15 is False in
\* Python 2; None in the bitwise-or is a TypeError.
Numbered_encode_header(pdu) ==
    IF pdu.dsap > 63 THEN Raise("EncodeError")
    ELSE IF pdu.ssap > 63 THEN Raise("EncodeError")
    ELSE IF pdu.nr # None /\ pdu.nr > 15 THEN Raise("EncodeError")
    ELSE IF pdu.ns # None /\ pdu.ns # 0 /\ pdu.ns > 15 THEN Raise("EncodeError")
    ELSE IF pdu.nr = None THEN Raise("TypeError")
    ELSE Cat(PackH(HeaderWord(pdu)),
             PackB(BitOr(IF pdu.ns # None /\ pdu.ns # 0 THEN Shl(pdu.ns, 4) ELSE 0, pdu.nr)))

(***************************************************************************)
(* Decoding.  A decode yields [err, pdu, hi]: the exception that escapes   *)
(* ("none": the value pdu is returned) and hi, the exclusive upper end of  *)
(* the buffer bytes the call has read (0 when it has read none).           *)
(***************************************************************************)
Ok(pdu, hi) == [err |-> "none", pdu |-> pdu, hi |-> hi]
Fail(e, hi) == [err |-> e, pdu |-> NoPdu, hi |-> hi]

\* the body of ParameterExchange.decode's loop: what one TLV does to pax_pdu
ParameterExchange_tlv(pdu, T, V) ==
    IF T = VERSION THEN [pdu EXCEPT !.version = V]
    ELSE IF T = MIUX THEN [pdu EXCEPT !.miu = 128 + V]
    ELSE IF T = WKS THEN [pdu EXCEPT !.wks = V]
    ELSE IF T = LTO THEN [pdu EXCEPT !.lto = V * 10]
    ELSE IF T = OPT THEN [pdu EXCEPT !.lsc = BitAnd(V, 3), !.dpc = BitAnd(Shr(V, 2), 1)]
    ELSE pdu

\* the body of Connect.decode's loop
Connect_tlv(pdu, T, V) ==
    IF T = MIUX THEN [pdu EXCEPT !.miu = 128 + V]
    ELSE IF T = RW THEN [pdu EXCEPT !.rw = V]
    ELSE IF T = SN THEN [pdu EXCEPT !.sn = V]
    ELSE pdu

\* the body of ConnectionComplete.decode's loop
ConnectionComplete_tlv(pdu, T, V) ==
    IF T = MIUX THEN [pdu EXCEPT !.miu = 128 + V]
    ELSE IF T = RW THEN [pdu EXCEPT !.rw = V]
    ELSE pdu

\* the body of ServiceNameLookup.decode's loop
ServiceNameLookup_tlv(pdu, T, V) ==
    IF T = SDREQ THEN [pdu EXCEPT !.sdreq = Append(@, V)]
    ELSE IF T = SDRES THEN [pdu EXCEPT !.sdres = Append(@, V)]
    ELSE pdu

\* the body of DataProtectionSetup.decode's loop
DataProtectionSetup_tlv(pdu, T, V) ==
    IF T = ECPK THEN [pdu EXCEPT !.ecpk = Some(V)]
    ELSE IF T = RN THEN [pdu EXCEPT !.rn = Some(V)]
    ELSE pdu

ApplyTlv(pdu, T, V) ==
    CASE pdu.name = "PAX" -> ParameterExchange_tlv(pdu, T, V)
      [] pdu.name = "CONNECT" -> Connect_tlv(pdu, T, V)
      [] pdu.name = "CC" -> ConnectionComplete_tlv(pdu, T, V)
      [] pdu.name = "SNL" -> ServiceNameLookup_tlv(pdu, T, V)
      [] pdu.name = "DPS" -> DataProtectionSetup_tlv(pdu, T, V)

RECURSIVE TlvLoop(_, _, _, _, _)
\* while size >= 2: T, L, V = Parameter.decode(data, offset, size); ...;
\* offset, size = offset + 2 + L, size - 2 - L.  Unpacking the None that
\* Parameter.decode returns for a type it does not know is a TypeError.
TlvLoop(data, offset, size, pdu, hi) ==
    IF ~(size >= 2) THEN Ok(pdu, hi)
    ELSE LET r == Parameter_decode(data, offset, size)
         IN  IF r.err # "none" THEN Fail(r.err, Max(hi, r.hi))
             ELSE IF r.isNone THEN Fail("TypeError", Max(hi, r.hi))
             ELSE TlvLoop(data, offset + 2 + r.L, size - 2 - r.L,
                          ApplyTlv(pdu, r.T, r.V), Max(hi, r.hi))

RECURSIVE TlvLoop_steps(_, _, _)
\* the iterations of the TLV loop over data[offset : offset+size] that run
\* to their end: for each, the bytes it takes from the remaining size
TlvLoop_steps(data, offset, size) ==
    IF ~(size >= 2) THEN << >>
    ELSE LET r == Parameter_decode(data, offset, size)
         IN  IF r.err # "none" \/ r.isNone THEN << >>
             ELSE << 2 + r.L >> \o TlvLoop_steps(data, offset + 2 + r.L, size - 2 - r.L)

\* Symmetry.decode(data, offset, size)
Symmetry_decode(data, offset, size) ==
    LET h == decode_header(data, offset, size)
    IN  IF h.err # "none" THEN Fail(h.err, h.hi)
        ELSE IF h.dsap # 0 THEN Fail("DecodeError", h.hi)
        ELSE IF h.ssap # 0 THEN Fail("DecodeError", h.hi)
        ELSE IF size >= 3 THEN Fail("DecodeError", h.hi)
        ELSE Ok(Symmetry(h.dsap, h.ssap), h.hi)

\* ParameterExchange.decode(data, offset, size)
ParameterExchange_decode(data, offset, size) ==
    LET h == decode_header(data, offset, size)
    IN  IF h.err # "none" THEN Fail(h.err, h.hi)
        ELSE IF h.dsap # 0 THEN Fail("DecodeError", h.hi)
        ELSE IF h.ssap # 0 THEN Fail("DecodeError", h.hi)
        ELSE TlvLoop(data, offset + 2, size - 2,
                     ParameterExchange(h.dsap, h.ssap, << 1, 0 >>, 128, 3, 100, 3, 0), h.hi)

\* UnnumberedInformation.decode(data, offset, size)
UnnumberedInformation_decode(data, offset, size) ==
    LET h == decode_header(data, offset, size)
    IN  IF h.err # "none" THEN Fail(h.err, h.hi)
        ELSE Ok(UnnumberedInformation(h.dsap, h.ssap,
                                      Some(Slice(data, offset + 2, offset + size))),
                Max(h.hi, SliceEnd(data, offset + 2, offset + size)))

\* Connect.decode(data, offset, size)
Connect_decode(data, offset, size) ==
    LET h == decode_header(data, offset, size)
    IN  IF h.err # "none" THEN Fail(h.err, h.hi)
        ELSE TlvLoop(data, offset + 2, size - 2, Connect(h.dsap, h.ssap, 128, 1, << >>), h.hi)

\* Disconnect.decode(data, offset, size)
Disconnect_decode(data, offset, size) ==
    LET h == decode_header(data, offset, size)
    IN  IF h.err # "none" THEN Fail(h.err, h.hi)
        ELSE Ok(Disconnect(h.dsap, h.ssap), h.hi)

\* ConnectionComplete.decode(data, offset, size)
ConnectionComplete_decode(data, offset, size) ==
    LET h == decode_header(data, offset, size)
    IN  IF h.err # "none" THEN Fail(h.err, h.hi)
        ELSE TlvLoop(data, offset + 2, size - 2,
                     ConnectionComplete(h.dsap, h.ssap, 128, 1), h.hi)

\* DisconnectedMode.decode without its size test
DisconnectedMode_decode_unsized(data, offset, size) ==
    LET h == decode_header(data, offset, size)
    IN  IF h.err # "none" THEN Fail(h.err, h.hi)
        ELSE IF ~CanUnpack(data, offset + 2, 1) THEN Fail("struct.error", h.hi)
        ELSE Ok(DisconnectedMode(h.dsap, h.ssap, At(data, offset + 2)), offset + 3)

\* DisconnectedMode.decode(data, offset, size)
DisconnectedMode_decode(data, offset, size) ==
    IF size # 3 THEN Fail("DecodeError", 0)
    ELSE LET h == decode_header(data, offset, size)
         IN  IF h.err # "none" THEN Fail(h.err, h.hi)
             ELSE IF ~CanUnpack(data, offset + 2, 1) THEN Fail("struct.error", h.hi)
             ELSE Ok(DisconnectedMode(h.dsap, h.ssap, At(data, offset + 2)), offset + 3)

\* FrameReject.decode(data, offset, size): the four bytes are unpacked at
\* offset, where the header is
FrameReject_decode(data, offset, size) ==
    IF size # 6 THEN Fail("DecodeError", 0)
    ELSE LET h == decode_header(data, offset, size)
         IN  IF h.err # "none" THEN Fail(h.err, h.hi)
             ELSE IF ~CanUnpack(data, offset, 4) THEN Fail("struct.error", h.hi)
             ELSE LET b0 == At(data, offset)
                      b1 == At(data, offset + 1)
                      b2 == At(data, offset + 2)
                      b3 == At(data, offset + 3)
                  IN  Ok(FrameReject(h.dsap, h.ssap, Shr(b0, 4), BitAnd(b0, 15),
                                     Shr(b1, 4), BitAnd(b1, 15), Shr(b2, 4), BitAnd(b2, 15),
                                     Shr(b3, 4), BitAnd(b3, 15)),
                         offset + 4)

\* ServiceNameLookup.decode(data, offset, size)
ServiceNameLookup_decode(data, offset, size) ==
    LET h == decode_header(data, offset, size)
    IN  IF h.err # "none" THEN Fail(h.err, h.hi)
        ELSE TlvLoop(data, offset + 2, size - 2,
                     ServiceNameLookup(h.dsap, h.ssap, << >>, << >>), h.hi)

\* DataProtectionSetup.decode(data, offset, size)
DataProtectionSetup_decode(data, offset, size) ==
    LET h == decode_header(data, offset, size)
    IN  IF h.err # "none" THEN Fail(h.err, h.hi)
        ELSE TlvLoop(data, offset + 2, size - 2,
                     DataProtectionSetup(h.dsap, h.ssap, NoBytes, NoBytes), h.hi)

\* Information.decode(data, offset, size)
Information_decode(data, offset, size) ==
    LET h == Numbered_decode_header(data, offset, size)
    IN  IF h.err # "none" THEN Fail(h.err, h.hi)
        ELSE Ok(Information(h.dsap, h.ssap, h.ns, h.nr,
                            Some(Slice(data, offset + 3, offset + size))),
                Max(h.hi, SliceEnd(data, offset + 3, offset + size)))

\* ReceiveReady.decode(data, offset, size)
ReceiveReady_decode(data, offset, size) ==
    LET h == Numbered_decode_header(data, offset, size)
    IN  IF h.err # "none" THEN Fail(h.err, h.hi)
        ELSE Ok(ReceiveReady(h.dsap, h.ssap, h.nr), h.hi)

\* ReceiveNotReady.decode(data, offset, size)
ReceiveNotReady_decode(data, offset, size) ==
    LET h == Numbered_decode_header(data, offset, size)
    IN  IF h.err # "none" THEN Fail(h.err, h.hi)
        ELSE Ok(ReceiveNotReady(h.dsap, h.ssap, h.nr), h.hi)

\* UnknownProtocolDataUnit.decode(data, offset, size): the header, the type
\* bits and the payload slice are read, then the constructor raises
UnknownProtocolDataUnit_decode(data, offset, size) ==
    LET h == decode_header(data, offset, size)
    IN  IF h.err # "none" THEN Fail(h.err, h.hi)
        ELSE LET pdutype == BitAnd(BitOr(Shl(At(data, offset), 2),
                                         Shr(At(data, offset + 1), 6)), 15)
                 made == UnknownProtocolDataUnit(pdutype, h.dsap, h.ssap,
                                                 Slice(data, offset + 2, offset + size))
             IN  IF made.err # "none"
                 THEN Fail(made.err, Max(h.hi, SliceEnd(data, offset + 2, offset + size)))
                 ELSE Ok(made.pdu, Max(h.hi, SliceEnd(data, offset + 2, offset + size)))

\* pdu_type_map.get(ptype, UnknownProtocolDataUnit): the class name
pdu_type_map(ptype) ==
    CASE ptype = 0 -> "SYMM"
      [] ptype = 1 -> "PAX"
      [] ptype = 2 -> "AGF"
      [] ptype = 3 -> "UI"
      [] ptype = 4 -> "CONNECT"
      [] ptype = 5 -> "DISC"
      [] ptype = 6 -> "CC"
      [] ptype = 7 -> "DM"
      [] ptype = 8 -> "FRMR"
      [] ptype = 9 -> "SNL"
      [] ptype = 10 -> "DPS"
      [] ptype = 12 -> "I"
      [] ptype = 13 -> "RR"
      [] ptype = 14 -> "RNR"
      [] OTHER -> "UNKNOWN"

\* the type code in bits 9..6 of the header word at offset
WireType(data, offset) == BitAnd(Shr(U16(data, offset), 6), 15)

RECURSIVE decode(_, _, _)
RECURSIVE AggregatedFrame_loop(_, _, _, _, _)

\* the loop of AggregatedFrame.decode: while size > 0: read the two length
\* bytes at offset, decode the nested PDU behind them, step over both
AggregatedFrame_loop(data, offset, size, pdu, hi) ==
    IF ~(size > 0) THEN Ok(pdu, hi)
    ELSE IF ~CanUnpack(data, offset, 2) THEN Fail("struct.error", hi)
    ELSE LET pdu_size == U16(data, offset)
             r == decode(data, offset + 2, pdu_size)
             top == Max(Max(hi, offset + 2), r.hi)
         IN  IF r.err # "none" THEN Fail(r.err, top)
             ELSE AggregatedFrame_loop(data, offset + 2 + pdu_size, size - 2 - pdu_size,
                                       AggregatedFrame_append(pdu, r.pdu), top)

\* AggregatedFrame.decode(data, offset, size)
AggregatedFrame_decode(data, offset, size) ==
    LET h == decode_header(data, offset, size)
    IN  IF h.err # "none" THEN Fail(h.err, h.hi)
        ELSE IF h.dsap # 0 THEN Fail("DecodeError", h.hi)
        ELSE IF h.ssap # 0 THEN Fail("DecodeError", h.hi)
        ELSE AggregatedFrame_loop(data, offset + 2, size - 2,
                                  AggregatedFrame(h.dsap, h.ssap, << >>), h.hi)

RECURSIVE AggregatedFrame_calls(_, _, _)
\* the iterations of AggregatedFrame.decode's loop over data[offset :
\* offset+size]: for each, the size it hands to the nested decode, whether
\* that decode got past its entry checks and ran a variant's codec, and
\* whether the iteration raised; the loop ends with the first that does
AggregatedFrame_calls(data, offset, size) ==
    IF ~(size > 0) THEN << >>
    ELSE IF ~CanUnpack(data, offset, 2)
    THEN << [entered |-> FALSE, pdu_size |-> 0, raised |-> TRUE] >>
    ELSE LET pdu_size == U16(data, offset)
             r == decode(data, offset + 2, pdu_size)
             entered == ~(offset + 2 + pdu_size > Len(data)) /\ ~(pdu_size < 2)
         IN  IF r.err # "none"
             THEN << [entered |-> entered, pdu_size |-> pdu_size, raised |-> TRUE] >>
             ELSE << [entered |-> entered, pdu_size |-> pdu_size, raised |-> FALSE] >>
                  \o AggregatedFrame_calls(data, offset + 2 + pdu_size, size - 2 - pdu_size)

RECURSIVE CallDepth(_, _, _)
\* how deep the calls of decode(data, offset, size) nest: the call itself,
\* and below it the deepest of the nested decodes of an aggregated frame
CallDepth(data, offset, size) ==
    IF offset + size > Len(data) \/ size < 2 THEN 1
    ELSE IF pdu_type_map(WireType(data, offset)) # "AGF" THEN 1
    ELSE IF decode_header(data, offset, size).dsap # 0 THEN 1
    ELSE IF decode_header(data, offset, size).ssap # 0 THEN 1
    ELSE LET calls == AggregatedFrame_calls(data, offset + 2, size - 2)
             RECURSIVE Deepest(_, _)
             Deepest(k, o) ==
                 IF k > Len(calls) THEN 0
                 ELSE IF ~calls[k].entered THEN 1
                 ELSE Max(CallDepth(data, o + 2, calls[k].pdu_size),
                          Deepest(k + 1, o + 2 + calls[k].pdu_size))
         IN  1 + Deepest(1, offset + 2)

\* pdu_type.decode(data, offset, size) for the class the map gives
VariantDecode(cls, data, offset, size) ==
    CASE cls = "SYMM" -> Symmetry_decode(data, offset, size)
      [] cls = "PAX" -> ParameterExchange_decode(data, offset, size)
      [] cls = "AGF" -> AggregatedFrame_decode(data, offset, size)
      [] cls = "UI" -> UnnumberedInformation_decode(data, offset, size)
      [] cls = "CONNECT" -> Connect_decode(data, offset, size)
      [] cls = "DISC" -> Disconnect_decode(data, offset, size)
      [] cls = "CC" -> ConnectionComplete_decode(data, offset, size)
      [] cls = "DM" -> DisconnectedMode_decode(data, offset, size)
      [] cls = "FRMR" -> FrameReject_decode(data, offset, size)
      [] cls = "SNL" -> ServiceNameLookup_decode(data, offset, size)
      [] cls = "DPS" -> DataProtectionSetup_decode(data, offset, size)
      [] cls = "I" -> Information_decode(data, offset, size)
      [] cls = "RR" -> ReceiveReady_decode(data, offset, size)
      [] cls = "RNR" -> ReceiveNotReady_decode(data, offset, size)
      [] cls = "UNKNOWN" -> UnknownProtocolDataUnit_decode(data, offset, size)

\* the result r of a call that has also read the buffer up to hi
HasRead(r, hi) == [r EXCEPT !.hi = Max(@, hi)]

\* decode without its two entry checks: the variant codec is run at once
decode_unchecked(data, offset, size) ==
    IF ~CanUnpack(data, offset, 2) THEN Fail("struct.error", 0)
    ELSE HasRead(VariantDecode(pdu_type_map(WireType(data, offset)), data, offset, size),
                 offset + 2)

\* decode(data, offset, size)
decode(data, offset, size) ==
    IF offset + size > Len(data) THEN Fail("DecodeError", 0)
    ELSE IF size < 2 THEN Fail("DecodeError", 0)
    ELSE HasRead(VariantDecode(pdu_type_map(WireType(data, offset)), data, offset, size),
                 offset + 2)

(***************************************************************************)
(* Encoding.  An encode yields [err, bytes].                               *)
(***************************************************************************)
\* Symmetry.encode(self)
Symmetry_encode(pdu) == encode_header(pdu)

\* ParameterExchange.encode(self).  self.version is a pair, which is true.
ParameterExchange_encode(pdu) ==
    LET h == encode_header(pdu)
        v == Cat(h, Parameter_encode(VERSION, pdu.version))
        m == IF pdu.miu # 0 /\ pdu.miu > 128
             THEN Cat(v, Parameter_encode(MIUX, pdu.miu - 128)) ELSE v
        w == IF pdu.wks # 0 THEN Cat(m, Parameter_encode(WKS, pdu.wks)) ELSE m
        l == IF pdu.lto # 0 /\ pdu.lto # 100
             THEN Cat(w, Parameter_encode(LTO, pdu.lto \div 10)) ELSE w
    IN  IF pdu.lsc # 0 \/ pdu.dpc # 0
        THEN Cat(l, Parameter_encode(OPT, BitOr(Shl(pdu.dpc, 2), pdu.lsc))) ELSE l

\* UnnumberedInformation.encode(self)
UnnumberedInformation_encode(pdu) == Cat(encode_header(pdu), Bytes(pdu.data))

\* Connect.encode(self)
Connect_encode(pdu) ==
    LET h == encode_header(pdu)
        m == IF pdu.miu # 0 /\ pdu.miu > 128
             THEN Cat(h, Parameter_encode(MIUX, pdu.miu - 128)) ELSE h
        w == IF pdu.rw # 0 /\ pdu.rw # 1 THEN Cat(m, Parameter_encode(RW, pdu.rw)) ELSE m
    IN  IF Len(pdu.sn) > 0 THEN Cat(w, Parameter_encode(SN, pdu.sn)) ELSE w

\* Disconnect.encode(self)
Disconnect_encode(pdu) == encode_header(pdu)

\* ConnectionComplete.encode(self)
ConnectionComplete_encode(pdu) ==
    LET h == encode_header(pdu)
        m == IF pdu.miu # 0 /\ pdu.miu > 128
             THEN Cat(h, Parameter_encode(MIUX, pdu.miu - 128)) ELSE h
    IN  IF pdu.rw # 0 /\ pdu.rw # 1 THEN Cat(m, Parameter_encode(RW, pdu.rw)) ELSE m

\* DisconnectedMode.encode(self)
DisconnectedMode_encode(pdu) == Cat(encode_header(pdu), PackB(pdu.reason))

\* FrameReject.encode(self)
FrameReject_encode(pdu) ==
    Cat(encode_header(pdu),
        Cat(Cat(PackB(BitOr(Shl(pdu.flags, 4), pdu.ptype)),
                PackB(BitOr(Shl(pdu.ns, 4), pdu.nr))),
            Cat(PackB(BitOr(Shl(pdu.vs, 4), pdu.vr)),
                PackB(BitOr(Shl(pdu.vsa, 4), pdu.vra)))))

RECURSIVE EncodeTlvs(_, _)
\* for v in values: data += Parameter.encode(T, v)
EncodeTlvs(T, values) ==
    IF values = << >> THEN Bytes(<< >>)
    ELSE Cat(Parameter_encode(T, Head(values)), EncodeTlvs(T, Tail(values)))

\* ServiceNameLookup.encode(self): the responses first, then the requests
ServiceNameLookup_encode(pdu) ==
    Cat(encode_header(pdu), Cat(EncodeTlvs(SDRES, pdu.sdres), EncodeTlvs(SDREQ, pdu.sdreq)))

\* DataProtectionSetup.encode(self)
DataProtectionSetup_encode(pdu) ==
    LET h == encode_header(pdu)
        e == IF Truthy(pdu.ecpk) THEN Cat(h, Parameter_encode(ECPK, pdu.ecpk.val)) ELSE h
    IN  IF Truthy(pdu.rn) THEN Cat(e, Parameter_encode(RN, pdu.rn.val)) ELSE e

\* Information.encode(self)
Information_encode(pdu) == Cat(Numbered_encode_header(pdu), Bytes(pdu.data))

\* ReceiveReady.encode(self)
ReceiveReady_encode(pdu) == Numbered_encode_header(pdu)

\* ReceiveNotReady.encode(self)
ReceiveNotReady_encode(pdu) == Numbered_encode_header(pdu)

\* UnknownProtocolDataUnit.encode(self)
UnknownProtocolDataUnit_encode(pdu) == Cat(encode_header(pdu), Bytes(pdu.payload))

RECURSIVE encode(_)
RECURSIVE EncodeAll(_)

\* [pdu.encode() for pdu in self._aggregate], each already behind its
\* struct.pack('!H', len(encoded_pdu)); the first exception escapes
EncodeAll(aggregate) ==
    IF aggregate = << >> THEN Bytes(<< >>)
    ELSE LET e == encode(Head(aggregate))
         IN  IF e.err # "none" THEN e
             ELSE Cat(Cat(PackH(Len(e.bytes)), e), EncodeAll(Tail(aggregate)))

\* AggregatedFrame.encode(self)
AggregatedFrame_encode(pdu) == Cat(encode_header(pdu), EncodeAll(pdu.aggregate))

\* encode(pdu): pdu.encode() of the value's class
encode(pdu) ==
    CASE pdu.name = "SYMM" -> Symmetry_encode(pdu)
      [] pdu.name = "PAX" -> ParameterExchange_encode(pdu)
      [] pdu.name = "AGF" -> AggregatedFrame_encode(pdu)
      [] pdu.name = "UI" -> UnnumberedInformation_encode(pdu)
      [] pdu.name = "CONNECT" -> Connect_encode(pdu)
      [] pdu.name = "DISC" -> Disconnect_encode(pdu)
      [] pdu.name = "CC" -> ConnectionComplete_encode(pdu)
      [] pdu.name = "DM" -> DisconnectedMode_encode(pdu)
      [] pdu.name = "FRMR" -> FrameReject_encode(pdu)
      [] pdu.name = "SNL" -> ServiceNameLookup_encode(pdu)
      [] pdu.name = "DPS" -> DataProtectionSetup_encode(pdu)
      [] pdu.name = "I" -> Information_encode(pdu)
      [] pdu.name = "RR" -> ReceiveReady_encode(pdu)
      [] pdu.name = "RNR" -> ReceiveNotReady_encode(pdu)
      [] pdu.name = "UNKNOWN" -> UnknownProtocolDataUnit_encode(pdu)

(***************************************************************************)
(* Lengths.  A __len__ yields [err, n].                                    *)
(***************************************************************************)
Length(n) == [err |-> "none", n |-> n]

\* ParameterExchange.__len__(self)
ParameterExchange_len(pdu) ==
    2 + 3
      + (IF pdu.miu # 0 /\ pdu.miu > 128 THEN 4 ELSE 0)
      + (IF pdu.wks # 0 THEN 4 ELSE 0)
      + (IF pdu.lto # 0 /\ pdu.lto # 100 THEN 3 ELSE 0)
      + (IF pdu.lsc # 0 \/ pdu.dpc # 0 THEN 3 ELSE 0)

\* Connect.__len__(self)
Connect_len(pdu) ==
    2 + (IF pdu.miu # 0 /\ pdu.miu > 128 THEN 4 ELSE 0)
      + (IF pdu.rw # 0 /\ pdu.rw # 1 THEN 3 ELSE 0)
      + (IF Len(pdu.sn) > 0 THEN 2 + Len(pdu.sn) ELSE 0)

\* ConnectionComplete.__len__(self)
ConnectionComplete_len(pdu) ==
    2 + (IF pdu.miu # 0 /\ pdu.miu > 128 THEN 4 ELSE 0)
      + (IF pdu.rw # 0 /\ pdu.rw # 1 THEN 3 ELSE 0)

RECURSIVE SumSdreq(_)
\* sum([3+len(sdreq[1]) for sdreq in self.sdreq])
SumSdreq(sdreq) ==
    IF sdreq = << >> THEN 0 ELSE 3 + Len(Head(sdreq)[2]) + SumSdreq(Tail(sdreq))

\* ServiceNameLookup.__len__(self)
ServiceNameLookup_len(pdu) == 2 + Len(pdu.sdres) * 4 + SumSdreq(pdu.sdreq)

\* DataProtectionSetup.__len__(self)
DataProtectionSetup_len(pdu) ==
    2 + (IF Truthy(pdu.ecpk) THEN 2 + Len(pdu.ecpk.val) ELSE 0)
      + (IF Truthy(pdu.rn) THEN 2 + Len(pdu.rn.val) ELSE 0)

\* UnknownProtocolDataUnit.__len__(self): ProtocolDataUnit defines no
\* __len__, so the super call is an AttributeError
UnknownProtocolDataUnit_len(pdu) == [err |-> "AttributeError", n |-> 0]

RECURSIVE len(_)
RECURSIVE SumLen(_)

\* sum([2+len(pdu) for pdu in self._aggregate])
SumLen(aggregate) ==
    IF aggregate = << >> THEN Length(0)
    ELSE LET a == len(Head(aggregate))
             b == SumLen(Tail(aggregate))
         IN  IF a.err # "none" THEN a
             ELSE IF b.err # "none" THEN b
             ELSE Length(2 + a.n + b.n)

\* AggregatedFrame.__len__(self)
AggregatedFrame_len(pdu) ==
    LET s == SumLen(pdu.aggregate)
    IN  IF s.err # "none" THEN s ELSE Length(2 + s.n)

\* len(pdu): the __len__ of the value's class
len(pdu) ==
    CASE pdu.name = "SYMM" -> Length(2)
      [] pdu.name = "PAX" -> Length(ParameterExchange_len(pdu))
      [] pdu.name = "AGF" -> AggregatedFrame_len(pdu)
      [] pdu.name = "UI" -> Length(2 + Len(pdu.data))
      [] pdu.name = "CONNECT" -> Length(Connect_len(pdu))
      [] pdu.name = "DISC" -> Length(2)
      [] pdu.name = "CC" -> Length(ConnectionComplete_len(pdu))
      [] pdu.name = "DM" -> Length(3)
      [] pdu.name = "FRMR" -> Length(6)
      [] pdu.name = "SNL" -> Length(ServiceNameLookup_len(pdu))
      [] pdu.name = "DPS" -> Length(DataProtectionSetup_len(pdu))
      [] pdu.name = "I" -> Length(3 + Len(pdu.data))
      [] pdu.name = "RR" -> Length(3)
      [] pdu.name = "RNR" -> Length(3)
      [] pdu.name = "UNKNOWN" -> UnknownProtocolDataUnit_len(pdu)

(***************************************************************************)
(* The inputs the model draws: PDU values to construct and encode, and     *)
(* buffers to decode.                                                      *)
(***************************************************************************)
\* the two header bytes of destination dsap, type ptype and source ssap
Hdr(dsap, ptype, ssap) == << dsap * 4 + ptype \div 4, (ptype % 4) * 64 + ssap >>

\* (dsap, ssap) of a constructed value: 64 is one past the six address bits
ValueAddrs == { << 0, 0 >>, << 1, 2 >>, << 63, 63 >>, << 64, 2 >>, << 1, 64 >> }
\* (dsap, ssap) on the wire
WireAddrs == { << 0, 0 >>, << 1, 2 >>, << 63, 63 >> }

OptBytes == { NoBytes, Some(<< >>), Some(<< 238, 239 >>) }
SdreqLists == { << >>, << << 1, << 65 >> >> >>, << << 2, << >> >>, << 1, << 65 >> >> >> }
SdresLists == { << >>, << << 1, 16 >> >>, << << 2, 17 >>, << 1, 16 >> >> }

\* the values of the variants that hold no other PDU
FlatValues ==
    UNION { { Symmetry(a[1], a[2]), Disconnect(a[1], a[2]) }
            \cup { ParameterExchange(a[1], a[2], ver, miu, wks, lto, lsc, dpc) :
                     ver \in { << 1, 0 >>, << 1, 3 >> }, miu \in { 128, 248 },
                     wks \in { 0, 3 }, lto \in { 100, 500 }, lsc \in 0..3, dpc \in { 0, 1 } }
            \cup { UnnumberedInformation(a[1], a[2], d) :
                     d \in { NoBytes, Some(<< 171 >>), Some(<< 1, 2 >>) } }
            \cup { Connect(a[1], a[2], miu, rw, sn) :
                     miu \in { 128, 248 }, rw \in { 0, 1, 2, 15 }, sn \in { << >>, << 65 >> } }
            \cup { ConnectionComplete(a[1], a[2], miu, rw) :
                     miu \in { 128, 248 }, rw \in { 0, 1, 2, 15 } }
            \cup { DisconnectedMode(a[1], a[2], reason) : reason \in { 0, 3, 33 } }
            \cup { FrameReject(a[1], a[2], flags, ptype, ns, 2, 3, 4, 5, vra) :
                     flags \in { 0, 9 }, ptype \in { 0, 8, 12 }, ns \in { 0, 1 },
                     vra \in { 0, 6 } }
            \cup { ServiceNameLookup(a[1], a[2], rq, rs) :
                     rq \in SdreqLists, rs \in SdresLists }
            \cup { DataProtectionSetup(a[1], a[2], ecpk, rn) :
                     ecpk \in OptBytes, rn \in OptBytes }
            \cup { Information(a[1], a[2], ns, nr, d) :
                     ns \in { 0, 5, 15, 16 }, nr \in { 0, 15, 16 },
                     d \in { NoBytes, Some(<< 7 >>) } }
            \cup { ReceiveReady(a[1], a[2], nr) : nr \in { 0, 15, 16 } }
            \cup { ReceiveNotReady(a[1], a[2], nr) : nr \in { 0, 15, 16 } }
          : a \in ValueAddrs }

\* the PDUs put into an aggregated frame
NestedValues ==
    { Symmetry(0, 0), DisconnectedMode(1, 2, 3), ReceiveReady(1, 2, 5),
      Connect(1, 2, 248, 1, << 65 >>), Disconnect(64, 1), AggregatedFrame(0, 0, << >>) }

\* TLVs as they come on the wire: every known type, well formed; types
\* that no variant knows; lengths the type forbids; lengths that overrun
TlvChunks ==
    { << 1, 1, 18 >>, << 2, 2, 8, 5 >>, << 3, 2, 0, 5 >>, << 4, 1, 20 >>,
      << 5, 1, 53 >>, << 6, 1, 65 >>, << 6, 0 >>, << 7, 1, 6 >>,
      << 8, 2, 1, 65 >>, << 8, 0 >>, << 9, 2, 1, 16 >>, << 10, 1, 238 >>,
      << 11, 2, 170, 187 >>,
      << 0, 0 >>, << 12, 1, 119 >>, << 255, 0 >>,
      << 1, 0 >>, << 9 >>,
      << 0, 3 >>, << 1, 9 >>, << 6, 9 >>, << 8, 9 >>, << 12, 9 >>, << 255, 200 >> }

\* entries of an aggregated frame: a Symmetry, a Disconnected Mode, a PDU
\* of the unused type 11, an empty aggregated frame, a length prefix cut
\* short, a one-byte PDU, a length that overruns, a length prefix with
\* nothing behind it
AgfChunks ==
    { << 0, 2, 0, 0 >>, << 0, 3, 5, 194, 3 >>, << 0, 2, 2, 192 >>, << 0, 2, 0, 128 >>,
      << 0 >>, << 0, 1, 7 >>, << 0, 9, 0, 0 >>, << 0, 4 >> }

\* payload bytes of the other variants
RawChunks == { << 3 >>, << 18 >>, << 245, 7 >>, << 52, 86, 120 >> }

ChunksOf(ptype) ==
    IF ptype \in { 1, 4, 6, 9, 10 } THEN TlvChunks
    ELSE IF ptype = 2 THEN AgfChunks
    ELSE RawChunks

\* the sequences of at most n chunks
ChunkSeqs(chunks, n) == UNION { [1..k -> chunks] : k \in 0..n }

RECURSIVE Flatten(_)
Flatten(cs) == IF cs = << >> THEN << >> ELSE Head(cs) \o Flatten(Tail(cs))

\* how the PDU lies in the buffer it is decoded from: the bytes before and
\* behind it, and the size passed.  A framing other than the plain one
\* counts as one chunk.
Framings ==
    { [pre |-> << >>, post |-> << >>, size |-> "exact", cost |-> 0],
      [pre |-> << 255 >>, post |-> << >>, size |-> "exact", cost |-> 1],
      [pre |-> << >>, post |-> << 0, 2, 0, 0 >>, size |-> "exact", cost |-> 1],
      [pre |-> << 255 >>, post |-> << 2, 5, 64 >>, size |-> "exact", cost |-> 1],
      [pre |-> << >>, post |-> << 12, 193, 7, 7 >>, size |-> "exact", cost |-> 1],
      [pre |-> << >>, post |-> << >>, size |-> "over", cost |-> 1],
      [pre |-> << >>, post |-> << 7 >>, size |-> "over", cost |-> 1],
      [pre |-> << >>, post |-> << >>, size |-> "zero", cost |-> 1],
      [pre |-> << >>, post |-> << >>, size |-> "one", cost |-> 1] }

SizeOf(f, wire) ==
    CASE f.size = "exact" -> Len(wire)
      [] f.size = "over" -> Len(wire) + Len(f.post) + 1
      [] f.size = "zero" -> 0
      [] f.size = "one" -> 1

\* buffers too short to hold a header
ShortBuffers == { << >>, << 0 >>, << 5 >>, << 255 >> }

\* a byte string of n bytes
Long(n) == [i \in 1..n |-> 65]

\* the lengths of the byte strings handed to Parameter.encode: empty, short,
\* and the two on either side of each limit
ValueLens == { 0, 1, 254, 255, 256 }

\* the type codes handed to Parameter.encode: the eleven known, and others
ParameterCodes == 0..12 \cup { 255 }

\* the values V handed to Parameter.encode with the type code T, in the
\* shape the variants pass them
ParameterValues(T) ==
    CASE T = VERSION -> { << 1, 0 >>, << 1, 3 >>, << 15, 15 >> }
      [] T \in { MIUX, WKS } -> { 0, 128, 2047, 65535 }
      [] T \in { LTO, RW, OPT } -> { 0, 3, 255 }
      [] T \in { SN, ECPK, RN } -> { Long(n) : n \in ValueLens }
      [] T = SDREQ -> { << 1, Long(n) >> : n \in ValueLens }
      [] T = SDRES -> { << 1, 16 >>, << 255, 63 >> }
      [] OTHER -> { << >>, << 7 >>, Long(256) }

(***************************************************************************)
(* The state machine: a value is constructed, encoded, measured and        *)
(* decoded again; a buffer is received, decoded and encoded again.         *)
(***************************************************************************)
VARIABLES pc, made, data, offset, size, dres, eres, lres, tlv, frames, heap

vars == << pc, made, data, offset, size, dres, eres, lres, tlv, frames, heap >>

NoMade == [err |-> "none", pdu |-> NoPdu]
NoDec == [err |-> "not run", pdu |-> NoPdu, hi |-> 0]
NoEnc == [err |-> "not run", bytes |-> << >>]
NoLen == [err |-> "not run", n |-> 0]
NoTlv == [T |-> 0, V |-> << >>]

Init ==
    /\ pc = "idle"
    /\ made = NoMade
    /\ data = << >>
    /\ offset = 0
    /\ size = 0
    /\ dres = NoDec
    /\ eres = NoEnc
    /\ lres = NoLen
    /\ tlv = NoTlv
    /\ frames = << >>
    /\ heap = << << >> >>

\* a constructor of one of the fourteen known variants is called
Construct ==
    /\ pc = "idle"
    /\ \E p \in FlatValues
              \cup { AggregatedFrame(a[1], a[2], agg) :
                       a \in ValueAddrs, agg \in { << >>, << Symmetry(0, 0) >> } } :
          made' = Made(p)
    /\ pc' = "constructed"
    /\ UNCHANGED << tlv, frames, heap, data, offset, size, dres, eres, lres >>

\* UnknownProtocolDataUnit(ptype, dsap, ssap, payload) is called
ConstructUnknown ==
    /\ pc = "idle"
    /\ \E ptype \in { 11, 15 }, a \in ValueAddrs, payload \in { << >>, << 171 >> } :
          made' = UnknownProtocolDataUnit(ptype, a[1], a[2], payload)
    /\ pc' = IF made'.err = "none" THEN "constructed" ELSE "raised"
    /\ UNCHANGED << tlv, frames, heap, data, offset, size, dres, eres, lres >>

\* agf.append(pdu)
AppendPdu ==
    /\ pc = "constructed"
    /\ made.pdu.name = "AGF"
    /\ Len(made.pdu.aggregate) < MaxAgg
    /\ \E q \in NestedValues : made' = Made(AggregatedFrame_append(made.pdu, q))
    /\ UNCHANGED << tlv, frames, heap, pc, data, offset, size, dres, eres, lres >>

\* encode(pdu) of the constructed value
Encode ==
    /\ pc = "constructed"
    /\ eres' = encode(made.pdu)
    /\ pc' = "encoded"
    /\ UNCHANGED << tlv, frames, heap, made, data, offset, size, dres, lres >>

\* len(pdu) of the constructed value
Measure ==
    /\ pc = "encoded"
    /\ lres' = len(made.pdu)
    /\ pc' = "measured"
    /\ UNCHANGED << tlv, frames, heap, made, data, offset, size, dres, eres >>

\* decode(encode(pdu)): the encoded bytes are decoded with the default
\* offset 0 and size len(data)
Redecode ==
    /\ pc = "encoded"
    /\ eres.err = "none"
    /\ data' = eres.bytes
    /\ offset' = 0
    /\ size' = Len(eres.bytes)
    /\ dres' = decode(eres.bytes, 0, Len(eres.bytes))
    /\ pc' = "redecoded"
    /\ UNCHANGED << tlv, frames, heap, made, eres, lres >>

\* a buffer arrives that holds a header and a body
Receive ==
    /\ pc = "idle"
    /\ \E ptype \in 0..15, a \in WireAddrs, f \in Framings :
          \E cs \in ChunkSeqs(ChunksOf(ptype), MaxChunks - f.cost) :
             LET wire == Hdr(a[1], ptype, a[2]) \o Flatten(cs)
             IN  /\ data' = f.pre \o wire \o f.post
                 /\ offset' = Len(f.pre)
                 /\ size' = SizeOf(f, wire)
    /\ pc' = "received"
    /\ UNCHANGED << tlv, frames, heap, made, dres, eres, lres >>

\* a buffer arrives that is shorter than a header
ReceiveShort ==
    /\ pc = "idle"
    /\ \E b \in ShortBuffers : data' = b /\ size' = Len(b)
    /\ offset' = 0
    /\ pc' = "received"
    /\ UNCHANGED << tlv, frames, heap, made, dres, eres, lres >>

\* decode(data, offset, size) of the received buffer
Decode ==
    /\ pc = "received"
    /\ dres' = decode(data, offset, size)
    /\ pc' = "decoded"
    /\ UNCHANGED << tlv, frames, heap, made, data, offset, size, eres, lres >>

\* encode(decode(data)): the decoded value is encoded
Reencode ==
    /\ pc = "decoded"
    /\ dres.err = "none"
    /\ eres' = encode(dres.pdu)
    /\ pc' = "reencoded"
    /\ UNCHANGED << tlv, frames, heap, made, data, offset, size, dres, lres >>

\* Parameter.encode(T, V)
EncodeParameter ==
    /\ pc = "idle"
    /\ \E T \in ParameterCodes : \E V \in ParameterValues(T) :
          /\ tlv' = [T |-> T, V |-> V]
          /\ eres' = Parameter_encode(T, V)
    /\ pc' = "parameter encoded"
    /\ UNCHANGED << frames, heap, made, data, offset, size, dres, lres >>

Next ==
    \/ Construct
    \/ ConstructUnknown
    \/ AppendPdu
    \/ Encode
    \/ Measure
    \/ Redecode
    \/ Receive
    \/ ReceiveShort
    \/ Decode
    \/ Reencode
    \/ EncodeParameter

Spec == Init /\ [][Next]_vars

(***************************************************************************)
(* Aggregated frames as objects.  heap holds the list objects: heap[r] is  *)
(* the content of the list with reference r.  frames holds the frames      *)
(* made so far: agg is the reference a frame keeps in _aggregate, given    *)
(* the reference of the list its constructor was called with.              *)
(***************************************************************************)
\* the list object of the default argument aggregate=[]
DefaultList == 1

\* a constructor that keeps the list src itself: self._aggregate = aggregate
AggregatedFrame_init_alias(h, src) == [heap |-> h, ref |-> src]

\* AggregatedFrame.__init__: self._aggregate = aggregate[:], a new list
\* with the content of the list src
AggregatedFrame_init(h, src) == [heap |-> Append(h, h[src]), ref |-> Len(h) + 1]

\* the value of frame f: its addresses and the content of its list
FrameValue(h, f) == AggregatedFrame(f.dsap, f.ssap, h[f.agg])

\* the PDUs appended to frames
FramePdus == { Symmetry(0, 0), DisconnectedMode(1, 2, 3) }

\* the lists callers construct frames with
CallerLists == { << >>, << ReceiveReady(1, 2, 5) >> }

\* the aggregated frames received: empty, one entry, two entries
FrameBuffers ==
    { << 0, 128 >>, << 0, 128, 0, 2, 0, 0 >>,
      << 0, 128, 0, 3, 5, 194, 3, 0, 2, 0, 0 >> }

\* AggregatedFrame(dsap, ssap): constructed with the default list
NewFrame ==
    /\ pc = "idle"
    /\ Len(frames) < MaxFrames
    /\ LET i == AggregatedFrame_init(heap, DefaultList)
       IN  /\ heap' = i.heap
           /\ frames' = Append(frames, [dsap |-> 0, ssap |-> 0, agg |-> i.ref,
                                        given |-> DefaultList])
    /\ UNCHANGED << pc, made, data, offset, size, dres, eres, lres, tlv >>

\* AggregatedFrame(dsap, ssap, l) for a list l the caller has made
NewFrameFrom ==
    /\ pc = "idle"
    /\ Len(frames) < MaxFrames
    /\ \E l \in CallerLists :
          LET given == Len(heap) + 1
              i == AggregatedFrame_init(Append(heap, l), given)
          IN  /\ heap' = i.heap
              /\ frames' = Append(frames, [dsap |-> 0, ssap |-> 0, agg |-> i.ref,
                                           given |-> given])
    /\ UNCHANGED << pc, made, data, offset, size, dres, eres, lres, tlv >>

\* decode of an aggregated frame: AggregatedFrame(dsap, ssap), then one
\* append for each nested PDU
DecodeFrame ==
    /\ pc = "idle"
    /\ Len(frames) < MaxFrames
    /\ \E b \in FrameBuffers :
          LET r == decode(b, 0, Len(b))
              i == AggregatedFrame_init(heap, DefaultList)
          IN  /\ r.err = "none"
              /\ heap' = [i.heap EXCEPT ![i.ref] = @ \o r.pdu.aggregate]
              /\ frames' = Append(frames, [dsap |-> r.pdu.dsap, ssap |-> r.pdu.ssap,
                                           agg |-> i.ref, given |-> DefaultList])
    /\ UNCHANGED << pc, made, data, offset, size, dres, eres, lres, tlv >>

\* frame.append(pdu) on one of the frames
AppendTo ==
    /\ pc = "idle"
    /\ \E k \in 1..Len(frames), q \in FramePdus :
          /\ Len(heap[frames[k].agg]) < MaxAgg
          /\ heap' = [heap EXCEPT ![frames[k].agg] = Append(@, q)]
    /\ UNCHANGED << pc, made, data, offset, size, dres, eres, lres, tlv, frames >>

\* encode(frame) of one of the frames
EncodeFrame ==
    /\ pc = "idle"
    /\ \E k \in 1..Len(frames) : eres' = encode(FrameValue(heap, frames[k]))
    /\ UNCHANGED << pc, made, data, offset, size, dres, lres, tlv, frames, heap >>

NextFrames ==
    \/ NewFrame
    \/ NewFrameFrom
    \/ DecodeFrame
    \/ AppendTo
    \/ EncodeFrame

SpecFrames == Init /\ [][NextFrames]_vars

(***************************************************************************)
(* Vocabulary of the properties.                                           *)
(***************************************************************************)
KnownNames ==
    { "SYMM", "PAX", "AGF", "UI", "CONNECT", "DISC", "CC", "DM", "FRMR", "SNL", "DPS",
      "I", "RR", "RNR" }
TlvNames == { "PAX", "CONNECT", "CC", "SNL", "DPS" }
NumberedNames == { "I", "RR", "RNR" }

\* the decode entry checks pass: the PDU lies inside the buffer
Framed == size >= 2 /\ offset + size <= Len(data)

\* the class the dispatch gives the received PDU
WireClass == pdu_type_map(WireType(data, offset))

RECURSIVE FieldsInRange(_)
\* every field of p but its addresses is in its legal range
FieldsInRange(p) ==
    CASE p.name \in { "CONNECT", "CC" } -> p.rw \in 0..15
      [] p.name = "PAX" -> p.lsc \in 0..3 /\ p.dpc \in 0..1
      [] p.name = "FRMR" ->
            \A x \in { p.flags, p.ptype, p.ns, p.nr, p.vs, p.vr, p.vsa, p.vra } : x \in 0..15
      [] p.name = "I" -> p.ns \in 0..15 /\ p.nr \in 0..15
      [] p.name \in { "RR", "RNR" } -> p.nr \in 0..15
      [] p.name = "AGF" ->
            \A i \in 1..Len(p.aggregate) :
               /\ FieldsInRange(p.aggregate[i])
               /\ p.aggregate[i].dsap \in 0..63
               /\ p.aggregate[i].ssap \in 0..63
      [] OTHER -> TRUE

RECURSIVE ZeroAddressed(_)
\* Symmetry, Parameter Exchange and Aggregated Frame carry zero addresses
ZeroAddressed(p) ==
    /\ p.name \in { "SYMM", "PAX", "AGF" } => p.dsap = 0 /\ p.ssap = 0
    /\ p.name = "AGF" => \A i \in 1..Len(p.aggregate) : ZeroAddressed(p.aggregate[i])

\* a value of a known variant whose fields are all in their legal ranges
Legal(p) ==
    /\ p.name \in KnownNames
    /\ p.dsap \in 0..63
    /\ p.ssap \in 0..63
    /\ FieldsInRange(p)
    /\ ZeroAddressed(p)

\* the TLV type codes a variant's decode loop applies
Recognized(cls) ==
    CASE cls = "PAX" -> { VERSION, MIUX, WKS, LTO, OPT }
      [] cls = "CONNECT" -> { MIUX, RW, SN }
      [] cls = "CC" -> { MIUX, RW }
      [] cls = "SNL" -> { SDREQ, SDRES }
      [] cls = "DPS" -> { ECPK, RN }
      [] OTHER -> { }

RECURSIVE WellFramed(_)
\* body is a sequence of whole TLVs: each declared length fits what is left
WellFramed(body) ==
    IF Len(body) = 0 THEN TRUE
    ELSE IF Len(body) < 2 THEN FALSE
    ELSE /\ body[2] <= Len(body) - 2
         /\ WellFramed(SubSeq(body, 3 + body[2], Len(body)))

RECURSIVE KeepTlvs(_, _)
\* the TLVs of a well-framed body whose type code is in keep, in order
KeepTlvs(body, keep) ==
    IF Len(body) < 2 THEN << >>
    ELSE (IF body[1] \in keep THEN SubSeq(body, 1, 2 + body[2]) ELSE << >>)
         \o KeepTlvs(SubSeq(body, 3 + body[2], Len(body)), keep)

RECURSIVE TlvTypes(_)
\* the type codes of the TLVs of a well-framed body
TlvTypes(body) ==
    IF Len(body) < 2 THEN { }
    ELSE { body[1] } \cup TlvTypes(SubSeq(body, 3 + body[2], Len(body)))

RECURSIVE OverrunReached(_, _, _)
\* the TLV loop, started at o with s bytes left, comes to a TLV whose
\* declared length exceeds s - 2: every TLV before it was handed back by
\* Parameter.decode
OverrunReached(buf, o, s) ==
    IF s < 2 THEN FALSE
    ELSE IF At(buf, o + 1) > s - 2 THEN TRUE
    ELSE LET r == Parameter_decode(buf, o, s)
         IN  /\ r.err = "none"
             /\ ~r.isNone
             /\ OverrunReached(buf, o + 2 + r.L, s - 2 - r.L)

RECURSIVE OverrunFramed(_, _, _)
\* stepping from TLV to TLV by the declared lengths alone, from o with s
\* bytes left, comes to a TLV whose declared length exceeds s - 2
OverrunFramed(buf, o, s) ==
    IF s < 2 THEN FALSE
    ELSE IF At(buf, o + 1) > s - 2 THEN TRUE
    ELSE OverrunFramed(buf, o + 2 + At(buf, o + 1), s - 2 - At(buf, o + 1))

\* the PDU as it lies in the buffer
Wire == SubSeq(data, offset + 1, offset + size)

(***************************************************************************)
(* The properties.                                                         *)
(***************************************************************************)

\* C1: for every value v of a known variant with all fields in their legal
\* ranges, decode(encode(v)) returns a value of the same variant whose
\* every field equals the field of v.
C1_DecodeOfEncodeIsValue ==
    (pc = "redecoded" /\ Legal(made.pdu)) =>
        /\ dres.err = "none"
        /\ dres.pdu.name = made.pdu.name
        /\ dres.pdu = made.pdu

\* C2: for every buffer b that decode accepts with offset 0 and size
\* len(b), encode(decode(b)) is b, byte for byte.
C2_EncodeOfDecodeIsBytes ==
    (pc = "reencoded" /\ offset = 0 /\ size = Len(data)) =>
        /\ eres.err = "none"
        /\ eres.bytes = data

\* C3: for every buffer, offset and size, decode either returns a PDU
\* value or fails with DecodeError; no other exception escapes.
C3_DecodeReturnsOrDecodeError ==
    pc \in { "decoded", "redecoded" } =>
        /\ dres.err \in { "none", "DecodeError" }
        /\ dres.err = "none" => dres.pdu.name \in KnownNames \cup { "UNKNOWN" }

\* C4: a buffer of at least two bytes whose header type code is 11 or 15
\* decodes to the unknown variant holding that type code, the header's
\* addresses and the trailing bytes, and that value encodes to the buffer.
C4_UnknownTypePassesThrough ==
    (pc \in { "decoded", "reencoded" } /\ Framed /\ WireType(data, offset) \in { 11, 15 }) =>
        /\ dres.err = "none"
        /\ dres.pdu.name = "UNKNOWN"
        /\ dres.pdu.ptype = WireType(data, offset)
        /\ dres.pdu.dsap = Shr(At(data, offset), 2)
        /\ dres.pdu.ssap = BitAnd(At(data, offset + 1), 63)
        /\ dres.pdu.payload = Slice(data, offset + 2, offset + size)
        /\ pc = "reencoded" => eres.err = "none" /\ eres.bytes = Wire

\* C5: decode fails with DecodeError, before any variant codec runs and
\* before any byte of the buffer is read, whenever offset+size exceeds the
\* buffer length or size is less than 2.
C5_EntryChecksFailFirst ==
    (pc = "decoded" /\ (offset + size > Len(data) \/ size < 2)) =>
        /\ dres.err = "DecodeError"
        /\ dres.hi = 0

\* a PDU whose size reaches past the end of the buffer has been refused
C5_Witness ==
    /\ pc = "decoded"
    /\ size >= 2
    /\ Len(data) >= 2
    /\ offset + size > Len(data)
    /\ dres.err = "DecodeError"

\* C6: in a TLV-carrying variant, when the TLV loop comes to a TLV whose
\* declared length exceeds the bytes left in the PDU minus the two TLV
\* header bytes, decode fails with DecodeError, whatever the TLV's type
\* code; a PDU that holds such a TLV anywhere in its framing is never
\* decoded to a value; and no byte at or beyond offset+size is read.
C6_TlvLengthChecked ==
    (pc = "decoded" /\ Framed /\ WireClass \in TlvNames) =>
        /\ OverrunReached(data, offset + 2, size - 2) => dres.err = "DecodeError"
        /\ OverrunFramed(data, offset + 2, size - 2) => dres.err # "none"
        /\ dres.hi <= offset + size

\* a TLV of a type no variant knows, whose declared length reaches into the
\* bytes that follow the PDU in the buffer, has been refused
C6_Witness ==
    /\ pc = "decoded"
    /\ Framed
    /\ WireClass \in TlvNames
    /\ offset + size < Len(data)
    /\ size >= 4
    /\ At(data, offset + 2) \notin 1..11
    /\ At(data, offset + 3) > size - 4
    /\ offset + 4 + At(data, offset + 3) <= Len(data)
    /\ dres.err = "DecodeError"

\* C7: when the body of a TLV-carrying variant is a sequence of whole TLVs
\* of which some have a type code the variant does not apply, and the PDU
\* decodes without them, then it decodes with them too, to the same value:
\* the TLVs are skipped and every other TLV is applied.
C7_UnrecognizedTlvSkipped ==
    (/\ pc = "decoded"
     /\ Framed
     /\ WireClass \in TlvNames
     /\ WellFramed(SubSeq(Wire, 3, size))
     /\ ~(TlvTypes(SubSeq(Wire, 3, size)) \subseteq Recognized(WireClass))) =>
        LET kept == SubSeq(Wire, 1, 2) \o KeepTlvs(SubSeq(Wire, 3, size), Recognized(WireClass))
            ref == decode(kept, 0, Len(kept))
        IN  ref.err = "none" => dres.err = "none" /\ dres.pdu = ref.pdu

\* C8: every variant, the unknown one included, can be constructed, and the
\* computed length of every constructed value (an aggregated frame after
\* any appends included) is the number of bytes its encode produces.
C8_LenIsEncodedLength ==
    /\ pc # "raised"
    /\ (pc = "measured" /\ eres.err = "none") => lres.err = "none" /\ lres.n = Len(eres.bytes)

\* C9: encoding a value fails with EncodeError whenever its destination or
\* source address exceeds 63 and, for a numbered variant, whenever its send
\* or receive sequence number exceeds 15; when encode succeeds the header
\* bits hold the addresses and sequence numbers themselves; and a value
\* with both addresses 63 and its other fields in range encodes.
C9_RangesCheckedOnEncode ==
    pc = "encoded" =>
        LET p == made.pdu
        IN  /\ (p.dsap > 63 \/ p.ssap > 63) => eres.err = "EncodeError"
            /\ (p.name \in NumberedNames /\ (p.ns > 15 \/ p.nr > 15)) =>
                   eres.err = "EncodeError"
            /\ eres.err = "none" =>
                   /\ eres.bytes[1] \div 4 = p.dsap
                   /\ eres.bytes[2] % 64 = p.ssap
                   /\ p.name \in NumberedNames =>
                         /\ eres.bytes[3] % 16 = p.nr
                         /\ eres.bytes[3] \div 16 = (IF p.ns = None THEN 0 ELSE p.ns)
            /\ (p.dsap = 63 /\ p.ssap = 63 /\ FieldsInRange(p)) => eres.err = "none"

\* a value whose source address is 64 has been refused by encode
C9_Witness ==
    /\ pc = "encoded"
    /\ made.pdu.dsap <= 63
    /\ made.pdu.ssap = 64
    /\ eres.err = "EncodeError"

\* C10: a Frame Reject value encodes to six bytes, the header with type
\* code 8 and then flags|type, N(S)|N(R), V(S)|V(R), V(SA)|V(RA); decoding
\* a six-byte Frame Reject takes the eight nibbles from bytes 2..5.
C10_FrameRejectLayout ==
    /\ (pc = "encoded" /\ made.pdu.name = "FRMR" /\ Legal(made.pdu)) =>
           LET p == made.pdu
           IN  /\ eres.err = "none"
               /\ eres.bytes = Hdr(p.dsap, 8, p.ssap)
                                 \o << p.flags * 16 + p.ptype, p.ns * 16 + p.nr,
                                       p.vs * 16 + p.vr, p.vsa * 16 + p.vra >>
    /\ (pc = "decoded" /\ Framed /\ size = 6 /\ WireType(data, offset) = 8) =>
           /\ dres.err = "none"
           /\ dres.pdu.flags = At(data, offset + 2) \div 16
           /\ dres.pdu.ptype = At(data, offset + 2) % 16
           /\ dres.pdu.ns = At(data, offset + 3) \div 16
           /\ dres.pdu.nr = At(data, offset + 3) % 16
           /\ dres.pdu.vs = At(data, offset + 4) \div 16
           /\ dres.pdu.vr = At(data, offset + 4) % 16
           /\ dres.pdu.vsa = At(data, offset + 5) \div 16
           /\ dres.pdu.vra = At(data, offset + 5) % 16

\* the value bytes Parameter.encode is to write for (T, V)
ValueBytes(T, V) ==
    CASE T = VERSION -> << V[1] * 16 + V[2] >>
      [] T \in { LTO, RW, OPT } -> << V >>
      [] T \in { MIUX, WKS } -> << V \div 256, V % 256 >>
      [] T \in { SN, ECPK, RN } -> V
      [] T = SDREQ -> << V[1] >> \o V[2]
      [] T = SDRES -> << V[1], V[2] >>

\* the value is one that Parameter.encode has to refuse
Refused(T, V) ==
    \/ T \notin 1..11
    \/ T \in { SN, ECPK, RN } /\ Len(V) > 255
    \/ T = SDREQ /\ Len(V[2]) > 254

\* C11: Parameter.encode fails with EncodeError, and with no other error,
\* for an SN, ECPK or RN value longer than 255 bytes, an SDREQ service name
\* longer than 254 bytes, and a type code outside 1..11; for every other
\* value it returns the type byte, the length byte that counts the value
\* bytes, and the value bytes.
C11_ParameterEncodeErrors ==
    pc = "parameter encoded" =>
        IF Refused(tlv.T, tlv.V) THEN eres.err = "EncodeError"
        ELSE /\ eres.err = "none"
             /\ eres.bytes = << tlv.T, Len(ValueBytes(tlv.T, tlv.V)) >> \o ValueBytes(tlv.T, tlv.V)

\* the total size of a fixed-size variant
FixedSize(cls) ==
    CASE cls = "SYMM" -> 2
      [] cls = "DM" -> 3
      [] cls = "FRMR" -> 6

\* the header's addresses are ones the variant accepts: zero for Symmetry
WellAddressed ==
    WireClass = "SYMM" =>
        /\ decode_header(data, offset, size).dsap = 0
        /\ decode_header(data, offset, size).ssap = 0

\* C12: a well-addressed buffer of a fixed-size variant decodes to that
\* variant when its size is the variant's size (2 for Symmetry, 3 for
\* Disconnected Mode, 6 for Frame Reject), and fails with DecodeError for
\* every other size of at least 2.
C12_FixedSizeExact ==
    (pc = "decoded" /\ Framed /\ WireClass \in { "SYMM", "DM", "FRMR" } /\ WellAddressed) =>
        IF size = FixedSize(WireClass)
        THEN dres.err = "none" /\ dres.pdu.name = WireClass
        ELSE dres.err = "DecodeError"

\* a Disconnected Mode PDU of four bytes has been refused
C12_Witness ==
    /\ pc = "decoded"
    /\ Framed
    /\ WireClass = "DM"
    /\ size = 4
    /\ At(data, offset + 2) = 3
    /\ dres.err = "DecodeError"

\* C13: the receive window of a decoded Connect or Connection Complete PDU
\* is in 0..15, whatever the value byte of its RW TLV: the value is the
\* low nibble of that byte.
C13_ReceiveWindowIsNibble ==
    (pc = "decoded" /\ dres.err = "none" /\ dres.pdu.name \in { "CONNECT", "CC" }) =>
        dres.pdu.rw \in 0..15

\* C14: a successful decode returns the variant the map assigns to the type
\* code in bits 9..6 of the header, the value's type code is that type
\* code, and encoding the value writes the same type code again.
C14_TypeCodeIsWireType ==
    /\ (pc \in { "decoded", "reencoded" } /\ dres.err = "none") =>
          /\ dres.pdu.name = WireClass
          /\ dres.pdu.ptype = WireType(data, offset)
    /\ (pc = "reencoded" /\ eres.err = "none") =>
          WireType(eres.bytes, 0) = WireType(data, offset)

RECURSIVE EntryOverrun(_, _, _)
\* the entries of the frame body data[offset : offset+size], taken in turn,
\* decode until one is met whose two length bytes are cut short by the end
\* of the frame, or whose declared length exceeds the rest of the frame
EntryOverrun(d, o, s) ==
    /\ s > 0
    /\ IF s < 2 THEN TRUE
       ELSE IF U16(d, o) > s - 2 THEN TRUE
       ELSE /\ decode(d, o + 2, U16(d, o)).err = "none"
            /\ EntryOverrun(d, o + 2 + U16(d, o), s - 2 - U16(d, o))

\* C15: decoding an Aggregated Frame of size s at offset o reads no byte at
\* or beyond o+s, and an entry whose length prefix is cut short or whose
\* declared length exceeds the rest of the frame makes decode fail with
\* DecodeError, also when the buffer goes on behind the frame.
C15_AggregateStaysInFrame ==
    (pc = "decoded" /\ Framed /\ WireClass = "AGF") =>
        /\ dres.hi <= offset + size
        /\ EntryOverrun(data, offset + 2, size - 2) => dres.err = "DecodeError"

\* the sequence of nested PDUs frame k holds
Sequence(h, k) == h[frames[k].agg]

RECURSIVE InAppendOrder(_)
\* the entries of an aggregated frame's body, the last appended PDU last
InAppendOrder(s) ==
    IF s = << >> THEN << >>
    ELSE LET e == encode(s[Len(s)]).bytes
         IN  InAppendOrder(SubSeq(s, 1, Len(s) - 1)) \o << Len(e) \div 256, Len(e) % 256 >> \o e

\* what one step may do to the frames and the lists
FrameStep ==
    /\ heap'[DefaultList] = heap[DefaultList]
    /\ \A k \in 1..Len(frames) :
          /\ frames'[k] = frames[k]
          /\ heap'[frames[k].given] = heap[frames[k].given]
          /\ \/ Sequence(heap', k) = Sequence(heap, k)
             \/ /\ \E q \in FramePdus : Sequence(heap', k) = Append(Sequence(heap, k), q)
                /\ \A j \in 1..Len(frames) : j # k => Sequence(heap', j) = Sequence(heap, j)
    /\ \A k \in 1..Len(frames') :
          /\ frames'[k].agg \notin { DefaultList, frames'[k].given }
          /\ \A j \in 1..Len(frames') : j # k => frames'[j].agg # frames'[k].agg
    /\ eres' # eres =>
          \E k \in 1..Len(frames) :
             eres' = [err |-> "none",
                      bytes |-> << frames[k].dsap * 4, 128 + frames[k].ssap >>
                                   \o InAppendOrder(Sequence(heap, k))]

\* C16: each aggregated frame owns its sequence of nested PDUs.  Whatever
\* constructions, decodes and appends are interleaved, an append adds its
\* PDU at the end of the one frame's sequence and leaves every other
\* frame's sequence, the list a constructor was called with and the
\* constructor's default list as they were; encode emits the nested PDUs
\* in the order they were appended.
C16_FrameOwnsItsSequence == [][FrameStep]_vars

\* two frames, one made from a caller's list and one from the default
\* list, have both been appended to and hold different sequences
C16_Witness ==
    /\ Len(frames) = 2
    /\ \E k \in 1..2, j \in 1..2 :
          /\ frames[k].given # DefaultList
          /\ heap[frames[k].given] # << >>
          /\ Len(Sequence(heap, k)) > Len(heap[frames[k].given])
          /\ frames[j].given = DefaultList
          /\ Sequence(heap, j) # << >>
          /\ Sequence(heap, j) # Sequence(heap, k)
    /\ eres.err = "none"
    /\ Len(eres.bytes) > 6

\* C17: decode terminates, and for the reasons given: an iteration of a
\* TLV loop takes at least 2 bytes of the remaining size; an iteration of
\* the Aggregated Frame loop fails or takes at least 4 bytes; a nested
\* decode is handed fewer bytes than the frame it lies in; and the number
\* of iterations and the depth of the calls are at most the buffer length.
C17_DecodeTerminates ==
    (pc = "decoded" /\ Framed) =>
        /\ dres.err # "not run"
        /\ CallDepth(data, offset, size) <= Len(data)
        /\ WireClass \in TlvNames =>
              LET steps == TlvLoop_steps(data, offset + 2, size - 2)
              IN  /\ \A k \in 1..Len(steps) : steps[k] >= 2
                  /\ Len(steps) <= Len(data)
        /\ (WireClass = "AGF" /\ At(data, offset) = 0 /\ At(data, offset + 1) = 128) =>
              LET calls == AggregatedFrame_calls(data, offset + 2, size - 2)
              IN  /\ \A k \in 1..Len(calls) :
                        /\ calls[k].raised \/ 2 + calls[k].pdu_size >= 4
                        /\ calls[k].entered => calls[k].pdu_size < size
                  /\ Len(calls) <= Len(data)

=============================================================================
